---- MODULE Spec2Model ----
(***************************************************************************)
(* A model of the route-trie router of src/index.js: the Node heap, the    *)
(* Trie options, and the operations define, match, remove and handle.      *)
(* JavaScript strings are TLA+ strings; s.slice, s.split, s.search, the    *)
(* module's regular expressions and toLowerCase are operators that compute *)
(* what the JavaScript computes, character by character.                   *)
(***************************************************************************)
EXTENDS Integers, Sequences, FiniteSets, TLC

(***************************************************************************)
(* Strings                                                                 *)
(***************************************************************************)

\* the least member of a set of integers, none when the set is empty
Least(S, none) == IF S = {} THEN none ELSE CHOOSE i \in S : \A j \in S : i <= j

\* s[i] of JavaScript (0-based); "" stands for undefined when out of range
CharAt(s, i) == IF i >= 0 /\ i < Len(s) THEN SubSeq(s, i + 1, i + 1) ELSE ""

\* s.slice(a, b) for 0 <= a, 0 <= b
Slice(s, a, b) ==
  IF a >= b \/ a >= Len(s) THEN ""
  ELSE SubSeq(s, a + 1, IF b > Len(s) THEN Len(s) ELSE b)

\* s.slice(a)
SliceFrom(s, a) == Slice(s, a, Len(s))

StartsWith(s, t) == Len(t) <= Len(s) /\ Slice(s, 0, Len(t)) = t

EndsWith(s, t) == Len(t) <= Len(s) /\ SliceFrom(s, Len(s) - Len(t)) = t

\* s.indexOf(c) for a one-character c; -1 when absent
IndexOf(s, c) == Least({i \in 0..(Len(s) - 1) : CharAt(s, i) = c}, -1)

\* s.includes(t)
Includes(s, t) ==
  \E i \in 0..(Len(s) - Len(t)) : Slice(s, i, i + Len(t)) = t

UpperCase == {"A", "B", "S", "X"}

LowerOf(c) ==
  CASE c = "A" -> "a"
    [] c = "B" -> "b"
    [] c = "S" -> "s"
    [] c = "X" -> "x"
    [] OTHER -> c

RECURSIVE ToLowerCase(_)
\* s.toLowerCase(), over the letters of the model's alphabet
ToLowerCase(s) ==
  IF s = "" THEN "" ELSE LowerOf(CharAt(s, 0)) \o ToLowerCase(SliceFrom(s, 1))

Letters == {"a", "b", "c", "d", "e", "s", "w", "x", "y", "z"} \cup UpperCase
Digits == {"0", "1", "2"}

\* \w of a JavaScript regular expression: [A-Za-z0-9_]
WordChars == Letters \cup Digits \cup {"_"}

\* the class [A-Za-z0-9!$%&'*+,-.:;=@_~] of suffixReg and doubleColonReg
PathChars == WordChars \cup {"!", "$", "%", "&", "'", "*", "+", ",", "-", ".",
                             ":", ";", "=", "@", "~"}

AllIn(s, class) == \A i \in 0..(Len(s) - 1) : CharAt(s, i) \in class

\* wordReg.test(s): /^\w+$/
wordReg(s) == s # "" /\ AllIn(s, WordChars)

\* s.search(suffixReg): the leftmost '+' that only path characters follow
suffixReg(s) ==
  Least({i \in 0..(Len(s) - 1) :
           CharAt(s, i) = "+" /\ AllIn(SliceFrom(s, i + 1), PathChars)}, -1)

\* doubleColonReg.test(s): /^::[...]*$/
doubleColonReg(s) == StartsWith(s, "::") /\ AllIn(SliceFrom(s, 2), PathChars)

\* s.replace(trimSlashReg, ''): one leading '/' removed
trimSlash(s) == IF StartsWith(s, "/") THEN SliceFrom(s, 1) ELSE s

RECURSIVE fixMultiSlash(_)
\* s.replace(fixMultiSlashReg, '/'): every run of slashes becomes one slash
fixMultiSlash(s) ==
  IF Len(s) < 2 THEN s
  ELSE IF CharAt(s, 0) = "/" /\ CharAt(s, 1) = "/" THEN fixMultiSlash(SliceFrom(s, 1))
  ELSE CharAt(s, 0) \o fixMultiSlash(SliceFrom(s, 1))

RECURSIVE Split(_)
\* s.split('/') for s whose first '/' is at i (-1 for none)
SplitAt(s, i) ==
  IF i < 0 THEN <<s>> ELSE <<Slice(s, 0, i)>> \o Split(SliceFrom(s, i + 1))

\* s.split('/')
Split(s) == SplitAt(s, IndexOf(s, "/"))

RECURSIVE Alternatives(_)
\* the alternatives of src, whose first '|' is at i (-1 for none)
AlternativesAt(src, i) ==
  IF i < 0 THEN {src} ELSE {Slice(src, 0, i)} \cup Alternatives(SliceFrom(src, i + 1))

\* the alternatives of a regular expression source made of literals and '|'
Alternatives(src) == AlternativesAt(src, IndexOf(src, "|"))

\* new RegExp(src).test(s) for a source made of literal word characters and
\* '|': unanchored, so true when some alternative occurs anywhere in s
RegExpTest(src, s) == \E alt \in Alternatives(src) : Includes(s, alt)

(***************************************************************************)
(* Nodes and the heap                                                      *)
(***************************************************************************)

\* null, where a Node reference is expected
NullId == -1

\* the Trie's root node, allocated by the constructor
RootId == 0

\* Object.create(null): a map with no key
EmptyMap == [k \in {} |-> 0]

\* new Node(parent); regex is <<>> for null and <<source>> for new RegExp(source)
Node(parent) ==
  [name |-> "", allow |-> "", pattern |-> "", segment |-> "", priority |-> 0,
   suffix |-> "", regex |-> <<>>, endpoint |-> FALSE, wildcard |-> FALSE,
   varyChildren |-> <<>>, parent |-> parent, children |-> EmptyMap,
   handlers |-> EmptyMap]

\* the identity given to a newly allocated object: the least unused one
NewId(h) == Least((0..Cardinality(DOMAIN h)) \ DOMAIN h, NullId)

\* obj[key] = value
Put(map, key, value) == (key :> value) @@ map

\* delete obj[key]
Delete(map, key) == [k \in DOMAIN map \ {key} |-> map[k]]

\* list[k] for an index k of find or findIndex, null when k is 0, for none
Entry(list, k) == IF k = 0 THEN NullId ELSE list[k]

\* a key gone wrong: the case of its letters is kept, ignoreCase or not
NoFold(ic, key) == key

\* key.toLowerCase() when ignoreCase is on
Fold(ic, key) == IF ic THEN ToLowerCase(key) ELSE key

\* Trie._getSegmentKey
GetSegmentKey(ic, segment) ==
  Fold(ic, IF doubleColonReg(segment) THEN SliceFrom(segment, 1) ELSE segment)

(***************************************************************************)
(* define                                                                  *)
(***************************************************************************)

\* the value a regex-constrained segment assigns to node.priority
RegexPriority(priority) == 3

\* what the dynamic branch of _parseNode throws on a malformed segment
Invalid ==
  [err |-> "InvalidPattern", name |-> "", wildcard |-> FALSE, suffix |-> "",
   regex |-> <<>>, priority |-> 0]

\* the end of the grammar: the default priority and the test of the name
Named(name, wildcard, suffix, regex, priority) ==
  [err |-> IF wordReg(name) THEN "" ELSE "InvalidPattern",
   name |-> name, wildcard |-> wildcard, suffix |-> suffix, regex |-> regex,
   priority |-> IF priority = 0 THEN 2 ELSE priority]

\* the regex of a name that ends with ')', its '(' being at i (-1 for none)
ParseParen(name, i, suffix, priority) ==
  IF i <= 0 THEN Named(name, FALSE, suffix, <<>>, priority)
  ELSE IF Slice(name, i + 1, Len(name) - 1) = "" THEN Invalid
  ELSE Named(Slice(name, 0, i), FALSE, suffix,
             <<Slice(name, i + 1, Len(name) - 1)>>, RegexPriority(priority))

\* the regex part of the grammar, the suffix taken off the name
ParseRegex(name, suffix, priority) ==
  IF CharAt(name, Len(name) - 1) = ")"
  THEN ParseParen(name, IndexOf(name, "("), suffix, priority)
  ELSE Named(name, FALSE, suffix, <<>>, priority)

\* the suffix part of the grammar, name.search(suffixReg) being n
ParseSuffix(name, n) ==
  IF n < 0 THEN ParseRegex(name, "", 0)
  ELSE IF SliceFrom(name, n + 1) = "" THEN Invalid
  ELSE ParseRegex(Slice(name, 0, n), SliceFrom(name, n + 1), 4)

\* the switch on the last character of the name
ParseName(name) ==
  IF CharAt(name, Len(name) - 1) = "*"
  THEN Named(Slice(name, 0, Len(name) - 1), TRUE, "", <<>>, 1)
  ELSE ParseSuffix(name, suffixReg(name))

\* the dynamic-segment grammar of _parseNode: the fields of the new node, or
\* the error thrown
ParseDynamic(segment) == ParseName(SliceFrom(segment, 1))

\* the node the dynamic branch of _parseNode has built from the fields d
DynamicNode(parent, d) ==
  [Node(parent) EXCEPT !.name = d.name, !.wildcard = d.wildcard,
     !.suffix = d.suffix, !.regex = d.regex, !.priority = d.priority]

\* a deduplication test gone wrong: it compares the parameter name too
SameTypeAndName(child, node) ==
  /\ child.wildcard = node.wildcard
  /\ child.suffix = node.suffix
  /\ ~(child.regex # <<>> /\ node.regex # <<>> /\ child.regex # node.regex)
  /\ child.name = node.name

\* the test of the deduplication loop of _parseNode: child is not skipped
SameType(child, node) ==
  ~(\/ child.wildcard # node.wildcard
    \/ child.suffix # node.suffix
    \/ (child.regex # <<>> /\ node.regex # <<>> /\ child.regex # node.regex))

RECURSIVE InsertFirst(_, _, _)
\* a sort gone wrong: id goes before the entries of its own priority
InsertFirst(h, sorted, id) ==
  IF sorted = <<>> THEN <<id>>
  ELSE IF h[Head(sorted)].priority > h[id].priority
       THEN <<Head(sorted)>> \o InsertFirst(h, Tail(sorted), id)
       ELSE <<id>> \o sorted

RECURSIVE InsertSorted(_, _, _)
\* one step of a stable sort by (a, b) => b.priority - a.priority: id goes
\* after every entry whose priority is not lower
InsertSorted(h, sorted, id) ==
  IF sorted = <<>> THEN <<id>>
  ELSE IF h[Head(sorted)].priority >= h[id].priority
       THEN <<Head(sorted)>> \o InsertSorted(h, Tail(sorted), id)
       ELSE <<id>> \o sorted

RECURSIVE SortByPriority(_, _)
\* list.sort((a, b) => b.priority - a.priority), a stable sort
SortByPriority(h, list) ==
  IF list = <<>> THEN <<>>
  ELSE InsertSorted(h, SortByPriority(h, SubSeq(list, 1, Len(list) - 1)), list[Len(list)])

\* a deduplication loop gone wrong: it stops at no entry
NoSameType(h, parent, node) == 0

\* the first entry of parent.varyChildren the deduplication loop stops at, or 0
FirstSameType(h, parent, node) ==
  Least({k \in 1..Len(h[parent].varyChildren) :
           SameType(h[h[parent].varyChildren[k]], node)}, 0)

\* a new static child of parent under key, allocated as id
AddStaticAs(h, parent, key, priority, id) ==
  [h |-> (id :> [Node(parent) EXCEPT !.priority = priority])
           @@ [h EXCEPT ![parent].children = Put(@, key, id)],
   err |-> "", child |-> id]

\* a new static child of parent under key
AddStatic(h, parent, key, priority) ==
  AddStaticAs(h, parent, key, priority, NewId(h))

\* parent.varyChildren becomes pushed, sorted when it has several entries
Push(h, parent, pushed) ==
  [h EXCEPT ![parent].varyChildren =
     IF Len(pushed) > 1 THEN SortByPriority(h, pushed) ELSE pushed]

\* an insertion gone wrong: the new node is put in parent.children as well,
\* under its name
AddBoth(h, parent, node, id) ==
  [h |-> [Push((id :> node) @@ h, parent, Append(h[parent].varyChildren, id))
            EXCEPT ![parent].children = Put(@, node.name, id)],
   err |-> "", child |-> id]

\* the new node, allocated as id, is pushed on parent.varyChildren
AddNew(h, parent, node, id) ==
  [h |-> Push((id :> node) @@ h, parent, Append(h[parent].varyChildren, id)),
   err |-> "", child |-> id]

\* the deduplication loop of _parseNode, having stopped at entry k (0: none)
Deduplicate(h, parent, node, k) ==
  IF k = 0 THEN AddNew(h, parent, node, NewId(h))
  ELSE IF h[h[parent].varyChildren[k]].name # node.name
       THEN [h |-> h, err |-> "NameConflict", child |-> NullId]
  ELSE [h |-> h, err |-> "", child |-> h[parent].varyChildren[k]]

\* the dynamic branch of _parseNode, the segment parsed into the fields d
AddParsed(h, parent, d) ==
  IF d.err # "" THEN [h |-> h, err |-> d.err, child |-> NullId]
  ELSE Deduplicate(h, parent, DynamicNode(parent, d),
                   FirstSameType(h, parent, DynamicNode(parent, d)))

\* the dynamic branch of _parseNode
AddDynamic(h, parent, segment) == AddParsed(h, parent, ParseDynamic(segment))

\* _parseNode, key being _getSegmentKey(segment)
ParseKeyed(h, parent, segment, key) ==
  IF key \in DOMAIN h[parent].children
  THEN [h |-> h, err |-> "", child |-> h[parent].children[key]]
  ELSE IF segment = "" THEN AddStatic(h, parent, "", 100)
  ELSE IF CharAt(segment, 0) = ":" THEN AddDynamic(h, parent, segment)
  ELSE IF doubleColonReg(segment) THEN AddStatic(h, parent, key, 50)
  ELSE IF CharAt(segment, 0) \in {"*", "(", ")"}
       THEN [h |-> h, err |-> "InvalidPattern", child |-> NullId]
  ELSE AddStatic(h, parent, key, 50)

\* Trie._parseNode: the child of parent for segment, found or created
ParseNode(h, ic, parent, segment) ==
  ParseKeyed(h, parent, segment, GetSegmentKey(ic, segment))

\* a wildcard test gone wrong: no node is taken for a wildcard
NeverWildcard(child) == FALSE

\* the test _defineNode makes of the child it goes on from
IsWildcard(child) == child.wildcard

RECURSIVE DefineNode(_, _, _, _)
\* _defineNode from the child on, its segment set: the endpoint, the test of
\* the wildcard, the recursion
DefineFrom(h, ic, child, rest) ==
  IF rest = <<>>
  THEN [h |-> [h EXCEPT ![child].endpoint = TRUE], err |-> "", node |-> child]
  ELSE IF IsWildcard(h[child])
       THEN [h |-> h, err |-> "WildcardContinuation", node |-> NullId]
  ELSE DefineNode(h, ic, child, rest)

\* _defineNode once _parseNode has returned r.child or thrown r.err
DefineParsed(ic, segment, rest, r) ==
  IF r.err # "" THEN [h |-> r.h, err |-> r.err, node |-> NullId]
  ELSE DefineFrom([r.h EXCEPT ![r.child].segment = segment], ic, r.child, rest)

\* Trie._defineNode
DefineNode(h, ic, parent, segments) ==
  DefineParsed(ic, Head(segments), Tail(segments),
               ParseNode(h, ic, parent, Head(segments)))

\* node.pattern = pattern, when define has not thrown and it is still ''
SetPattern(r, pattern) ==
  IF r.err = "" /\ r.h[r.node].pattern = ""
  THEN [r EXCEPT !.h = [r.h EXCEPT ![r.node].pattern = pattern]]
  ELSE r

\* a define gone wrong: the nodes are made before the '//' is looked for
DefineLate(h, ic, pattern) ==
  IF Includes(pattern, "//")
  THEN [h |-> DefineNode(h, ic, RootId,
                         Split(trimSlash(fixMultiSlash(pattern)))).h,
        err |-> "MultiSlash", node |-> NullId]
  ELSE SetPattern(DefineNode(h, ic, RootId, Split(trimSlash(pattern))), pattern)

\* Trie.define: the heap afterwards, the error thrown ("" for none) and the
\* node returned
DefineOp(h, ic, pattern) ==
  IF Includes(pattern, "//") THEN [h |-> h, err |-> "MultiSlash", node |-> NullId]
  ELSE SetPattern(DefineNode(h, ic, RootId, Split(trimSlash(pattern))), pattern)

(***************************************************************************)
(* match                                                                   *)
(***************************************************************************)

\* new Matched()
Matched == [node |-> NullId, params |-> EmptyMap, fpr |-> "", tsr |-> ""]

\* the test of the suffix of a dynamic child against a segment: the child is
\* skipped when it fails
SuffixFits(child, segment) ==
  child.suffix = "" \/ (segment # child.suffix /\ EndsWith(segment, child.suffix))

\* the part of segment a child's regex is tested on and its parameter holds
StripSuffix(child, segment) ==
  IF child.suffix # "" THEN Slice(segment, 0, Len(segment) - Len(child.suffix))
  ELSE segment

\* the body of the loop of _matchNode over parent.varyChildren: child matches
VaryFits(child, segment) ==
  /\ SuffixFits(child, segment)
  /\ child.regex = <<>> \/ RegExpTest(child.regex[1], StripSuffix(child, segment))

\* the first entry of parent.varyChildren that matches segment, or 0
FirstFit(h, parent, segment) ==
  Least({k \in 1..Len(h[parent].varyChildren) :
           VaryFits(h[h[parent].varyChildren[k]], segment)}, 0)

\* _matchNode, key being the static key of the segment and k the first entry
\* of parent.varyChildren that matches it
Found(h, parent, key, k) ==
  IF key \in DOMAIN h[parent].children THEN h[parent].children[key]
  ELSE Entry(h[parent].varyChildren, k)

\* a lookup gone wrong: the varyChildren of parent are never tried
MatchStatic(h, ic, parent, segment) == Found(h, parent, Fold(ic, segment), 0)

\* a lookup gone wrong: the varyChildren of parent are tried before its
\* children
MatchVaryFirst(h, ic, parent, segment) ==
  IF FirstFit(h, parent, segment) # 0
  THEN Entry(h[parent].varyChildren, FirstFit(h, parent, segment))
  ELSE Found(h, parent, Fold(ic, segment), 0)

\* Trie._matchNode
MatchNode(h, ic, parent, segment) ==
  Found(h, parent, Fold(ic, segment), FirstFit(h, parent, segment))

\* _matchNode again, on the lower-cased segment, when ignoreCase is on and
\* the first call returned null
Retry(h, ic, parent, segment, node) ==
  IF ic /\ node = NullId THEN MatchNode(h, ic, parent, ToLowerCase(segment))
  ELSE node

\* a dead end gone wrong: after a collapse the redirect is left in tsr as well
DeadEndBoth(h, opts, path, fixedLen, i, segment, parent, matched) ==
  IF opts.tsr /\ segment = "" /\ i = Len(path) /\ h[parent].endpoint
  THEN [matched EXCEPT !.tsr = Slice(path, 0, Len(path) - 1),
                       !.fpr = IF opts.fpr /\ fixedLen > 0
                               THEN Slice(path, 0, Len(path) - 1) ELSE ""]
  ELSE matched

\* a dead end gone wrong: the redirect is proposed whether parent is an
\* endpoint or not
DeadEndAnyParent(h, opts, path, fixedLen, i, segment, parent, matched) ==
  IF opts.tsr /\ segment = "" /\ i = Len(path)
  THEN IF opts.fpr /\ fixedLen > 0
       THEN [matched EXCEPT !.fpr = Slice(path, 0, Len(path) - 1)]
       ELSE [matched EXCEPT !.tsr = Slice(path, 0, Len(path) - 1)]
  ELSE matched

\* the dead end of match: the result when no child matches segment
DeadEnd(h, opts, path, fixedLen, i, segment, parent, matched) ==
  IF opts.tsr /\ segment = "" /\ i = Len(path) /\ h[parent].endpoint
  THEN IF opts.fpr /\ fixedLen > 0
       THEN [matched EXCEPT !.fpr = Slice(path, 0, Len(path) - 1)]
       ELSE [matched EXCEPT !.tsr = Slice(path, 0, Len(path) - 1)]
  ELSE matched

\* an end of match gone wrong: the node the scan stopped at is the result,
\* endpoint or not, slashes collapsed or not
FinishAnywhere(h, opts, path, fixedLen, parent, matched) ==
  [matched EXCEPT !.node = parent]

\* the end of match: the result once the scan has stopped at parent
Finish(h, opts, path, fixedLen, parent, matched) ==
  IF h[parent].endpoint
  THEN IF opts.fpr /\ fixedLen > 0
       THEN [matched EXCEPT !.fpr = path]
       ELSE [matched EXCEPT !.node = parent]
  ELSE IF opts.tsr /\ "" \in DOMAIN h[parent].children
       THEN IF opts.fpr /\ fixedLen > 0
            THEN [matched EXCEPT !.fpr = path \o "/"]
            ELSE [matched EXCEPT !.tsr = path \o "/"]
  ELSE matched

RECURSIVE Scan(_, _, _, _, _, _, _, _)
\* the body of the loop of match for the segment that ends at i, node being
\* what _matchNode found for it
Step(h, opts, path, fixedLen, i, start, parent, matched, segment, node) ==
  IF node = NullId
  THEN DeadEnd(h, opts, path, fixedLen, i, segment, parent, matched)
  ELSE IF h[node].name # "" /\ h[node].wildcard
       THEN Finish(h, opts, path, fixedLen, node,
                   [matched EXCEPT !.params =
                      Put(@, h[node].name, Slice(path, start, Len(path)))])
  ELSE IF h[node].name # ""
       THEN Scan(h, opts, path, fixedLen, i + 1, i + 1, node,
                 [matched EXCEPT !.params =
                    Put(@, h[node].name, StripSuffix(h[node], segment))])
  ELSE Scan(h, opts, path, fixedLen, i + 1, i + 1, node, matched)

\* the loop of match from index i on, with the loop's start, parent and matched
Scan(h, opts, path, fixedLen, i, start, parent, matched) ==
  IF i > Len(path) THEN Finish(h, opts, path, fixedLen, parent, matched)
  ELSE IF i < Len(path) /\ CharAt(path, i) # "/"
       THEN Scan(h, opts, path, fixedLen, i + 1, start, parent, matched)
  ELSE Step(h, opts, path, fixedLen, i, start, parent, matched,
            Slice(path, start, i),
            Retry(h, opts.ignoreCase, parent, Slice(path, start, i),
                  MatchNode(h, opts.ignoreCase, parent, Slice(path, start, i))))

\* a match gone wrong: the path is scanned as given, its slashes not collapsed
MatchUnfixed(h, opts, path, fixed) ==
  Scan(h, opts, path, 0, 1, 1, RootId, Matched)

\* match from the loop on, fixed being the path after fixMultiSlashReg
MatchFixed(h, opts, path, fixed) ==
  Scan(h, opts, fixed, Len(path) - Len(fixed), 1, 1, RootId, Matched)

\* Trie.match: the error thrown ("" for none) and the Matched returned
MatchOp(h, opts, path) ==
  IF path = "" \/ CharAt(path, 0) # "/"
  THEN [err |-> "FormatError", matched |-> Matched]
  ELSE [err |-> "",
        matched |-> MatchFixed(h, opts, path,
                               IF opts.fpr THEN fixMultiSlash(path) ELSE path)]

(***************************************************************************)
(* remove                                                                  *)
(***************************************************************************)

\* the child of currentNode that _findNode goes on to for segment, or null
FindChild(h, currentNode, segment, key) ==
  IF key \in DOMAIN h[currentNode].children THEN h[currentNode].children[key]
  ELSE Entry(h[currentNode].varyChildren,
             Least({k \in 1..Len(h[currentNode].varyChildren) :
                      h[h[currentNode].varyChildren[k]].segment = segment}, 0))

RECURSIVE FindFrom(_, _, _, _)
\* the loop of _findNode once child is found, or not, for a segment
FindRest(h, ic, child, rest) ==
  IF child = NullId THEN NullId ELSE FindFrom(h, ic, child, rest)

\* the loop of _findNode from currentNode over the segments left
FindFrom(h, ic, currentNode, segments) ==
  IF segments = <<>> THEN currentNode
  ELSE FindRest(h, ic,
                FindChild(h, currentNode, Head(segments),
                          GetSegmentKey(ic, Head(segments))),
                Tail(segments))

\* Trie._findNode
FindNode(h, ic, path) == FindFrom(h, ic, RootId, Split(trimSlash(path)))

\* a test gone wrong: a node without children is detached, endpoint or not
CanPruneLeaf(node) ==
  DOMAIN node.children = {} /\ node.varyChildren = <<>>

\* the test of _pruneNode: node is detached from its parent
CanPrune(node) ==
  ~node.endpoint /\ DOMAIN node.children = {} /\ node.varyChildren = <<>>

\* list.splice(index, 1), index being 0 when findIndex found none
SpliceAt(list, index) ==
  IF index = 0 THEN list
  ELSE SubSeq(list, 1, index - 1) \o SubSeq(list, index + 1, Len(list))

\* list.splice(index, 1) for the index of id in list, when there is one
Splice(list, id) ==
  SpliceAt(list, Least({k \in 1..Len(list) : list[k] = id}, 0))

\* node id is taken out of its parent's varyChildren or children
Detach(h, ic, id) ==
  IF StartsWith(h[id].segment, ":") \/ StartsWith(h[id].segment, "*")
  THEN [h EXCEPT ![h[id].parent].varyChildren = Splice(@, id)]
  ELSE [h EXCEPT ![h[id].parent].children =
          Delete(@, GetSegmentKey(ic, h[id].segment))]

\* the heap without id, once nothing holds it
Free(h, id) ==
  IF \E n \in DOMAIN h \ {id} :
       \/ \E k \in DOMAIN h[n].children : h[n].children[k] = id
       \/ \E k \in 1..Len(h[n].varyChildren) : h[n].varyChildren[k] = id
  THEN h
  ELSE [n \in DOMAIN h \ {id} |-> h[n]]

RECURSIVE PruneNode(_, _, _)
\* Trie._pruneNode
PruneNode(h, ic, id) ==
  IF id = NullId \/ h[id].parent = NullId THEN h
  ELSE IF ~CanPrune(h[id]) THEN h
  ELSE PruneNode(Free(Detach(h, ic, id), id), ic, h[id].parent)

\* a remove gone wrong: a path that _findNode does not find is an error
RemoveOrThrow(h, ic, node) ==
  IF node = NullId THEN [h |-> h, err |-> "NotFound", node |-> NullId]
  ELSE [h |-> PruneNode([h EXCEPT ![node].endpoint = FALSE,
                                  ![node].handlers = EmptyMap,
                                  ![node].allow = ""], ic, node),
        err |-> "", node |-> node]

\* remove once _findNode has returned node
RemoveFound(h, ic, node) ==
  IF node = NullId THEN [h |-> h, err |-> "", node |-> NullId]
  ELSE [h |-> PruneNode([h EXCEPT ![node].endpoint = FALSE,
                                  ![node].handlers = EmptyMap,
                                  ![node].allow = ""], ic, node),
        err |-> "", node |-> node]

\* Trie.remove: the heap afterwards, the error thrown ("" for none) and the
\* node found (null for none)
RemoveOp(h, ic, path) ==
  IF path = "" \/ CharAt(path, 0) # "/"
  THEN [h |-> h, err |-> "FormatError", node |-> NullId]
  ELSE RemoveFound(h, ic, FindNode(h, ic, path))

(***************************************************************************)
(* handle                                                                  *)
(***************************************************************************)

\* Node.handle on node id; handler "" stands for null
HandleOp(h, id, method, handler) ==
  IF handler = "" THEN [h |-> h, err |-> "TypeError"]
  ELSE IF method \in DOMAIN h[id].handlers THEN [h |-> h, err |-> "AlreadyDefined"]
  ELSE [h |-> [h EXCEPT ![id].handlers = Put(@, method, handler),
                        ![id].allow = IF @ = "" THEN method ELSE @ \o ", " \o method],
        err |-> ""]

\* Node.getHandler; "" stands for null
GetHandler(h, id, method) ==
  IF method \in DOMAIN h[id].handlers THEN h[id].handlers[method] ELSE ""

(***************************************************************************)
(* The router as a state machine                                           *)
(***************************************************************************)

\* the most Node objects a trie holds, the root included
MaxNodes == 4

\* the patterns handed to define
Patterns ==
  {"/a/:b", "a/:b", "/a/:b(x|y)", "/a/:c(x|y)", "/a/:d+s", "/a/:e(x)+s2",
   "/a/:w*", "/a/::b", "/a/:w*/c", "/a"}

\* the paths handed to remove
Removals == {"/a/:b", "/a/:b(x|y)", "/a/:d+s", "/a/:w*", "/a", "/a/x"}

\* the paths handed to match
Paths == {"/a/x", "/a/w", "/a/:b", "/a/::b", "/a", "a/x"}

\* the patterns, removals and paths of the runs over every option
OptionPatterns ==
  {"/a/:b", "/a", "/a/", "/a/:d+s", "/a/:e(x)+s2", "/a/:w*", "/a/:w*/c"}

OptionRemovals == {"/a/:b", "/a/:w*"}

OptionPaths ==
  {"/a", "/a/", "/a//", "/a/x", "/a/x/y", "/a//x", "/A/x", "/b/x", "/a/xs",
   "/a/s", "/a/xS", "/a/xs2", "/a/Xs2", "/a/ws2"}

VARIABLES
  nodes,   \* the heap: the Node objects reachable from trie.root, by identity
  opts,    \* the Trie's ignoreCase, fpr and tsr
  last,    \* the last call: its operation, argument, error and result
  pre,     \* the heap before the last call
  log      \* what the caller has registered, when the caller keeps track of it

vars == <<nodes, opts, last, pre, log>>

\* the caller's record: the patterns whose define succeeded and that no remove
\* was called for since, whether any define has failed, and for each node the
\* method and handler of every handle call that succeeded on it since it was
\* created or cleared, in call order
NoLog == [routes |-> {}, failed |-> FALSE, handled |-> EmptyMap]

\* the record of the handle calls once the trie is h, node cleared being
\* cleared (none for null): a node not there before has no call
Handled(h, cleared) ==
  [id \in DOMAIN h |->
     IF id \in DOMAIN log.handled /\ id # cleared THEN log.handled[id]
     ELSE <<>>]

Call(op, arg, err, node, matched) ==
  [op |-> op, arg |-> arg, err |-> err, node |-> node, matched |-> matched]

\* new Trie(options)
Construct(options) ==
  /\ nodes = (RootId :> Node(NullId))
  /\ opts = options
  /\ last = Call("new", "", "", NullId, Matched)
  /\ pre = nodes
  /\ log = NoLog

\* new Trie({ ignoreCase }): the redirects keep their default, on
Init ==
  \E ignoreCase \in BOOLEAN :
      Construct([ignoreCase |-> ignoreCase, fpr |-> TRUE, tsr |-> TRUE])

\* new Trie({ ignoreCase, fixedPathRedirect, trailingSlashRedirect })
InitOptions ==
  \E options \in [ignoreCase : BOOLEAN, fpr : BOOLEAN, tsr : BOOLEAN] :
      Construct(options)

\* trie.define(pattern), r being what define does to the trie
DefineCall(pattern, r) ==
  /\ Cardinality(DOMAIN r.h) <= MaxNodes
  /\ nodes' = r.h
  /\ last' = Call("define", pattern, r.err, r.node, Matched)
  /\ pre' = nodes
  /\ UNCHANGED opts

\* trie.define(pattern)
Define(pattern) ==
  \E r \in {DefineOp(nodes, opts.ignoreCase, pattern)} :
      DefineCall(pattern, r) /\ UNCHANGED log

\* trie.define(pattern) by a caller that keeps track of its routes
DefineRoute(pattern) ==
  \E r \in {DefineOp(nodes, opts.ignoreCase, pattern)} :
      /\ DefineCall(pattern, r)
      /\ log' = [routes |-> IF r.err = "" THEN log.routes \cup {pattern}
                            ELSE log.routes,
                 failed |-> log.failed \/ r.err # "",
                 handled |-> Handled(r.h, NullId)]

\* trie.match(path)
Match(path) ==
  \E r \in {MatchOp(nodes, opts, path)} :
      /\ last' = Call("match", path, r.err, NullId, r.matched)
      /\ pre' = nodes
      /\ UNCHANGED <<nodes, opts, log>>

\* trie.remove(path), r being what remove does to the trie
RemoveCall(path, r) ==
  /\ nodes' = r.h
  /\ last' = Call("remove", path, r.err, r.node, Matched)
  /\ pre' = nodes
  /\ UNCHANGED opts

\* trie.remove(path)
Remove(path) ==
  \E r \in {RemoveOp(nodes, opts.ignoreCase, path)} :
      RemoveCall(path, r) /\ UNCHANGED log

\* trie.remove(path) by a caller that keeps track of its routes
RemoveRoute(path) ==
  \E r \in {RemoveOp(nodes, opts.ignoreCase, path)} :
      /\ RemoveCall(path, r)
      /\ log' = [routes |-> IF r.err = "" THEN log.routes \ {path}
                            ELSE log.routes,
                 failed |-> log.failed,
                 handled |-> Handled(r.h, r.node)]

\* node.handle(method, handler) on a node of the trie
Handle(id, method, handler) ==
  \E r \in {HandleOp(nodes, id, method, handler)} :
      /\ nodes' = r.h
      /\ last' = [op |-> "handle", arg |-> method, handler |-> handler,
                  err |-> r.err, node |-> id, matched |-> Matched]
      /\ pre' = nodes
      /\ log' = [log EXCEPT !.handled =
                   IF r.err = ""
                   THEN [Handled(nodes, NullId) EXCEPT
                           ![id] = Append(@, <<method, handler>>)]
                   ELSE Handled(nodes, NullId)]
      /\ UNCHANGED opts

Next ==
  \/ \E pattern \in Patterns : Define(pattern)
  \/ \E path \in Paths : Match(path)
  \/ \E path \in Removals : Remove(path)

Spec == Init /\ [][Next]_vars

NextOptions ==
  \/ \E pattern \in OptionPatterns : Define(pattern)
  \/ \E path \in OptionPaths : Match(path)
  \/ \E path \in OptionRemovals : Remove(path)

SpecOptions == InitOptions /\ [][NextOptions]_vars

\* the patterns, removals and paths of a caller that keeps track of its routes
RoutePatterns ==
  {"/a", "/a/b", "/a/b/c", "/a/:b", "/a/:b(x|y)", "/a/:w*/c"}

RouteRemovals == {"/a", "/a/b", "/a/b/c", "/a/:b", "/a/:b(x|y)", "/a/c"}

RoutePaths == {"/a", "/a/b/c", "/a/x"}

NextRoutes ==
  \/ \E pattern \in RoutePatterns : DefineRoute(pattern)
  \/ \E path \in RoutePaths : Match(path)
  \/ \E path \in RouteRemovals : RemoveRoute(path)

SpecRoutes == Init /\ [][NextRoutes]_vars

\* the patterns, removals, methods and handlers of a caller that registers
\* handlers; the handler "" stands for null
HandlePatterns == {"/a"}

HandleRemovals == {"/a"}

Methods == {"", "GET", "PUT"}

Handlers == {"", "f", "g"}

\* the nodes of the trie that define has returned to the caller
Returned == {id \in DOMAIN nodes : nodes[id].pattern # ""}

NextHandle ==
  \/ \E pattern \in HandlePatterns : DefineRoute(pattern)
  \/ \E id \in Returned, method \in Methods, handler \in Handlers :
        Handle(id, method, handler)
  \/ \E path \in HandleRemovals : RemoveRoute(path)

SpecHandle == Init /\ [][NextHandle]_vars

\* the patterns, removals and paths that differ in the case of their letters
CasePatterns == {"/a", "/A", "/a/:b(x|y)", "/A/:b(x|y)", "/a/:w*"}

CaseRemovals == {"/a", "/A"}

CasePaths == {"/a", "/A", "/a/x", "/A/x", "/a/X", "/A/X"}

NextCase ==
  \/ \E pattern \in CasePatterns : Define(pattern)
  \/ \E path \in CasePaths : Match(path)
  \/ \E path \in CaseRemovals : Remove(path)

SpecCase == Init /\ [][NextCase]_vars

\* a JavaScript value handed to define, match or remove: its typeof and, for
\* a string, its text
String(text) == [type |-> "string", text |-> text]

NotString == {[type |-> "number", text |-> ""],
              [type |-> "undefined", text |-> ""]}

\* the values handed to define, to match and to remove, well-formed or not
InputPatterns == {String("/a"), String("/a/b"), String("/a//b")} \cup NotString

InputPaths == {String("/a"), String(""), String("a"), String("/a/b")}
                \cup NotString

InputRemovals == {String("/a"), String(""), String("a/b")} \cup NotString

TypeError == [h |-> nodes, err |-> "TypeError", node |-> NullId,
              matched |-> Matched]

\* trie.define(value): typeof pattern !== 'string' throws
DefineValue(value) ==
  \E r \in {IF value.type # "string" THEN TypeError
             ELSE DefineOp(nodes, opts.ignoreCase, value.text)} :
      DefineCall(value, r) /\ UNCHANGED log

\* trie.match(value): typeof path !== 'string' throws
MatchValue(value) ==
  \E r \in {IF value.type # "string" THEN TypeError
             ELSE MatchOp(nodes, opts, value.text)} :
      /\ last' = Call("match", value, r.err, NullId, r.matched)
      /\ pre' = nodes
      /\ UNCHANGED <<nodes, opts, log>>

\* trie.remove(value): typeof path !== 'string' throws
RemoveValue(value) ==
  \E r \in {IF value.type # "string" THEN TypeError
             ELSE RemoveOp(nodes, opts.ignoreCase, value.text)} :
      RemoveCall(value, r) /\ UNCHANGED log

NextInput ==
  \/ \E value \in InputPatterns : DefineValue(value)
  \/ \E value \in InputPaths : MatchValue(value)
  \/ \E value \in InputRemovals : RemoveValue(value)

SpecInput == Init /\ [][NextInput]_vars

\* the patterns, removals and paths that try the names of parameters
NamePatterns ==
  {"/a/:b", "/a/:", "/a/:*", "/a/:1", "/a/:1b(x)", "/a/:b-c", "/a/:2+s",
   "/a/:_"}

NameRemovals == {"/a/:b", "/a/:1"}

NamePaths == {"/a/x", "/a/xs"}

NextNames ==
  \/ \E pattern \in NamePatterns : Define(pattern)
  \/ \E path \in NamePaths : Match(path)
  \/ \E path \in NameRemovals : Remove(path)

SpecNames == Init /\ [][NextNames]_vars

\* the patterns, removals and paths that set a static child beside dynamic
\* ones
StaticPatterns == {"/a/b", "/a/B", "/a/:b", "/a/:c(b|x)", "/a/:w*"}

StaticRemovals == {"/a/b", "/a/:w*"}

StaticPaths == {"/a/b", "/a/B", "/a/x"}

NextStatic ==
  \/ \E pattern \in StaticPatterns : Define(pattern)
  \/ \E path \in StaticPaths : Match(path)
  \/ \E path \in StaticRemovals : Remove(path)

SpecStatic == Init /\ [][NextStatic]_vars

\* the patterns, removals, method and handler of a caller that registers a
\* handler on the nodes it was returned, whatever was removed since
ClearedPatterns == {"/a", "/a/b"}

ClearedRemovals == {"/a", "/a/b"}

NextCleared ==
  \/ \E pattern \in ClearedPatterns : DefineRoute(pattern)
  \/ \E id \in Returned, handler \in {"f", "g"} : Handle(id, "GET", handler)
  \/ \E path \in ClearedRemovals : RemoveRoute(path)

SpecCleared == Init /\ [][NextCleared]_vars

(***************************************************************************)
(* What the properties read off a state                                    *)
(***************************************************************************)

\* the segments define and remove split a pattern into
Segments(pattern) == Split(trimSlash(pattern))

\* parent.children[key], null when there is none
ChildOf(h, parent, key) ==
  IF parent # NullId /\ key \in DOMAIN h[parent].children
  THEN h[parent].children[key] ELSE NullId

\* the entries of parent.varyChildren, none for a null parent
Vary(h, parent) ==
  IF parent = NullId THEN {}
  ELSE {h[parent].varyChildren[k] : k \in 1..Len(h[parent].varyChildren)}

\* the type signature of a dynamic node: wildcard flag, suffix, regex source
Signature(node) == <<node.wildcard, node.suffix, node.regex>>

\* the last call was define of a pattern "a/<dynamic segment>" whose dynamic
\* segment is well formed
DefinedDynamic ==
  /\ last.op = "define"
  /\ Len(Segments(last.arg)) = 2
  /\ Segments(last.arg)[1] = "a"
  /\ CharAt(Segments(last.arg)[2], 0) = ":"
  /\ ParseDynamic(Segments(last.arg)[2]).err = ""

\* the dynamic siblings, before the last call, of the node it defined
SiblingsBefore == Vary(pre, ChildOf(pre, RootId, "a"))

(***************************************************************************)
(* define: one node per segment type                                       *)
(***************************************************************************)

\* C1: define is idempotent. Once define(p) has returned a node, define(p)
\* again, and define of p without its leading '/', return that same node,
\* allocate no node and leave every children map and every varyChildren list
\* as they are.
C1_DefineIdempotent ==
  (last.op = "define" /\ last.err = "") =>
    \A again \in {last.arg, trimSlash(last.arg)} :
      LET r == DefineOp(nodes, opts.ignoreCase, again)
      IN  /\ r.err = ""
          /\ r.node = last.node
          /\ DOMAIN r.h = DOMAIN nodes
          /\ \A n \in DOMAIN nodes :
               /\ r.h[n].children = nodes[n].children
               /\ r.h[n].varyChildren = nodes[n].varyChildren

\* a second define, of '/a/:b' written without its leading '/', has returned
\* the node of '/a/:b' and left the heap as it was
C1_Witness ==
  /\ last.op = "define" /\ last.arg = "a/:b" /\ last.err = ""
  /\ pre = nodes
  /\ nodes[last.node].pattern = "/a/:b"
  /\ Cardinality(DOMAIN nodes) = 3

\* C2: with '/a/:b' and '/a/:b(x|y)' both defined, in either order, match of
\* a path whose segment satisfies the regex resolves to the node of the
\* regex pattern, and match of a path whose segment does not resolves to the
\* node of '/a/:b' and never to no node.
C2_RegexBeforePlain ==
  LET ic == opts.ignoreCase
      plainLast == last.arg = "/a/:b" /\ FindNode(pre, ic, "/a/:b(x|y)") # NullId
      regexLast == last.arg = "/a/:b(x|y)" /\ FindNode(pre, ic, "/a/:b") # NullId
      plain == IF plainLast THEN last.node ELSE FindNode(pre, ic, "/a/:b")
      regex == IF plainLast THEN FindNode(pre, ic, "/a/:b(x|y)") ELSE last.node
  IN  (last.op = "define" /\ last.err = "" /\ (plainLast \/ regexLast)) =>
        /\ MatchOp(nodes, opts, "/a/x").matched.node = regex
        /\ MatchOp(nodes, opts, "/a/w").matched.node = plain
        /\ MatchOp(nodes, opts, "/a/w").matched.node # NullId

\* C3: define reuses an entry of varyChildren only when its type signature
\* (wildcard flag, suffix, regex source) is that of the new segment; a
\* segment whose signature no sibling has is accepted without error,
\* whatever its parameter name, and becomes a node of its own.
C3_SignatureDedup ==
  DefinedDynamic =>
    LET d == ParseDynamic(Segments(last.arg)[2])
        same == {c \in SiblingsBefore : Signature(pre[c]) = Signature(d)}
    IN  IF same = {}
        THEN last.err = "" /\ last.node \notin DOMAIN pre
        ELSE \A c \in same : pre[c].name = d.name => last.node = c

\* C4: define of a dynamic segment whose type signature is that of an
\* existing sibling while its parameter name is another fails with the name
\* conflict error, and the parent's varyChildren list is left as it was.
C4_NameConflict ==
  LET d == ParseDynamic(Segments(last.arg)[2])
      a == ChildOf(pre, RootId, "a")
  IN  (/\ DefinedDynamic
       /\ \E c \in SiblingsBefore :
            Signature(pre[c]) = Signature(d) /\ pre[c].name # d.name) =>
        /\ last.err = "NameConflict"
        /\ a \in DOMAIN nodes
        /\ nodes[a].varyChildren = pre[a].varyChildren

\* define('/a/:c(x|y)') has failed on the sibling of '/a/:b(x|y)'
C4_Witness ==
  /\ last.op = "define" /\ last.arg = "/a/:c(x|y)" /\ last.err = "NameConflict"
  /\ \E c \in SiblingsBefore : pre[c].regex = <<"x|y">> /\ pre[c].name = "b"

\* C5: the priority of a dynamic node is 1 for a wildcard, 2 for a plain
\* parameter, 3 for a regex, 4 for a suffix and 7 for a regex with a suffix,
\* and every varyChildren list is in descending order of priority.
C5_Priorities ==
  \A n \in DOMAIN nodes :
    /\ nodes[n].name # "" =>
         nodes[n].priority =
           IF nodes[n].wildcard THEN 1
           ELSE IF nodes[n].suffix # "" /\ nodes[n].regex # <<>> THEN 7
           ELSE IF nodes[n].suffix # "" THEN 4
           ELSE IF nodes[n].regex # <<>> THEN 3
           ELSE 2
    /\ \A j, k \in 1..Len(nodes[n].varyChildren) :
         j < k => nodes[nodes[n].varyChildren[j]].priority
                    >= nodes[nodes[n].varyChildren[k]].priority

\* C6: define accepts the segment '::b' as the literal ':b': the node it
\* returns has no parameter name and sits in the static children, match of
\* '/a/:b' resolves to it, and match of '/a/::b' resolves to no node.
C6_EscapedColon ==
  (last.op = "define" /\ last.arg = "/a/::b") =>
    /\ last.err = ""
    /\ nodes[last.node].name = ""
    /\ ChildOf(nodes, ChildOf(nodes, RootId, "a"), ":b") = last.node
    /\ MatchOp(nodes, opts, "/a/:b").matched.node = last.node
    /\ MatchOp(nodes, opts, "/a/::b").matched.node = NullId

(***************************************************************************)
(* match: wildcards, exact patterns, suffixes                              *)
(***************************************************************************)

\* the path the loop of match scans: the last path matched, its duplicate
\* slashes collapsed when fpr is on
Scanned == IF opts.fpr THEN fixMultiSlash(last.arg) ELSE last.arg

\* the segments the loop of match cuts a path into
PathSegments(path) == Split(SliceFrom(path, 1))

\* the wildcard entries of the varyChildren of the static node 'a' whose
\* parameter the last match captured
WildcardsEntered ==
  {w \in Vary(nodes, ChildOf(nodes, RootId, "a")) :
     nodes[w].wildcard /\ nodes[w].name \in DOMAIN last.matched.params}

\* the parent 'a' of a wildcard is no endpoint and the last match was of a
\* path that stops at it
StoppedAtParent ==
  /\ last.op = "match" /\ last.err = ""
  /\ PathSegments(Scanned) = <<"a">>
  /\ \E w \in Vary(nodes, ChildOf(nodes, RootId, "a")) : nodes[w].wildcard
  /\ ~nodes[ChildOf(nodes, RootId, "a")].endpoint

\* C7, as claimed: when the scan of match goes down into a wildcard node at
\* the segment that starts at index s, the value captured is all of the
\* scanned path from s on and the result node is the wildcard node; a path
\* that stops at the wildcard's parent yields no node.
C7_WildcardCapture ==
  /\ (last.op = "match" /\ last.err = "") =>
       \A w \in WildcardsEntered :
         /\ last.matched.params[nodes[w].name] =
              SliceFrom(Scanned, Len(PathSegments(Scanned)[1]) + 2)
         /\ last.matched.node = w
  /\ StoppedAtParent => last.matched.node = NullId

\* C7, amended: the value captured is all of the scanned path from s on; the
\* result node is the wildcard node when that node is an endpoint and fpr
\* collapsed no slash of the path, and no node otherwise; a path that stops
\* at the wildcard's parent yields no node.
C7_WildcardCaptureAmended ==
  /\ (last.op = "match" /\ last.err = "") =>
       \A w \in WildcardsEntered :
         /\ last.matched.params[nodes[w].name] =
              SliceFrom(Scanned, Len(PathSegments(Scanned)[1]) + 2)
         /\ last.matched.node =
              IF nodes[w].endpoint /\ Scanned = last.arg THEN w ELSE NullId
  /\ StoppedAtParent => last.matched.node = NullId

\* match('/a/x/y') has captured 'x/y' and resolved to the wildcard node
C7_Witness ==
  /\ last.op = "match" /\ last.arg = "/a/x/y"
  /\ last.matched.node \in WildcardsEntered
  /\ last.matched.params[nodes[last.matched.node].name] = "x/y"

\* C8: define of a pattern with a segment after a wildcard segment fails with
\* an error, so no wildcard node has a static or a dynamic child.
C8_WildcardIsLast ==
  /\ last.op = "define" =>
       ((\E k \in 1..(Len(Segments(last.arg)) - 1) :
           /\ CharAt(Segments(last.arg)[k], 0) = ":"
           /\ EndsWith(Segments(last.arg)[k], "*"))
        => last.err # "")
  /\ \A n \in DOMAIN nodes :
       nodes[n].wildcard =>
         DOMAIN nodes[n].children = {} /\ nodes[n].varyChildren = <<>>

\* define('/a/:w*/c') has failed at the segment after the wildcard node
C8_Witness ==
  /\ last.op = "define" /\ last.arg = "/a/:w*/c"
  /\ last.err = "WildcardContinuation"
  /\ \E n \in DOMAIN nodes : nodes[n].wildcard

\* a trie on which define(pattern) is the only call made
Single(pattern) == DefineOp((RootId :> Node(NullId)), opts.ignoreCase, pattern)

\* a literal segment of a pattern and a segment of a path agree: they are
\* the same text, whatever the case of its letters when fold is set
SameText(literal, segment, fold) ==
  IF fold THEN ToLowerCase(literal) = ToLowerCase(segment)
  ELSE literal = segment

\* what match returns for path in a trie that holds pattern alone, as the
\* claim has it
Exact(pattern, path, matched, fold) ==
  LET want == Segments(pattern)
      got == PathSegments(path)
      named == {k \in 1..Len(want) : CharAt(want[k], 0) = ":"}
      fits == /\ Len(got) = Len(want)
              /\ \A k \in 1..Len(want) :
                   k \in named \/ SameText(want[k], got[k], fold)
  IN  IF fits
      THEN /\ matched.node = Single(pattern).node
           /\ DOMAIN matched.params = {SliceFrom(want[k], 1) : k \in named}
           /\ \A k \in named : matched.params[SliceFrom(want[k], 1)] = got[k]
      ELSE matched.node = NullId

\* the last call matched a path without duplicate slashes in a trie that
\* holds pattern alone
MatchedAlone(pattern) ==
  /\ last.op = "match" /\ last.err = ""
  /\ ~Includes(last.arg, "//")
  /\ nodes = Single(pattern).h

\* C9, as claimed: in a trie that holds a single pattern p of literal and
\* plain ':name' segments, match of a path without duplicate slashes returns
\* p's node exactly when the path has as many segments as p and every literal
\* segment of p equals the path's; params then maps each parameter name to
\* its segment and nothing else; any other path yields no node.
C9_ExactMatch ==
  \A pattern \in {"/a/:b", "/a"} :
    MatchedAlone(pattern) => Exact(pattern, last.arg, last.matched, FALSE)

\* C9, amended: the same, a literal segment of p equalling the path's
\* whatever the case of its letters when ignoreCase is on.
C9_ExactMatchAmended ==
  \A pattern \in {"/a/:b", "/a"} :
    MatchedAlone(pattern) => Exact(pattern, last.arg, last.matched, opts.ignoreCase)

\* match('/A/x') has resolved to the node of '/a/:b', alone in the trie
C9_Witness ==
  /\ MatchedAlone("/a/:b") /\ last.arg = "/A/x"
  /\ last.matched.node = Single("/a/:b").node
  /\ last.matched.params = ("b" :> "x")

\* C10: a dynamic node with a suffix matches a segment only if the segment
\* ends with the suffix and is not the suffix alone, and only if the segment
\* less its suffix satisfies the node's regex when it has one; the value
\* captured is the segment less its suffix, so it is not empty and the value
\* followed by the suffix is the segment.
C10_SuffixCapture ==
  (last.op = "match" /\ last.err = "" /\ Len(PathSegments(Scanned)) >= 2) =>
    \A c \in Vary(nodes, ChildOf(nodes, RootId, "a")) :
      (nodes[c].suffix # "" /\ nodes[c].name \in DOMAIN last.matched.params) =>
        LET segment == PathSegments(Scanned)[2]
            value == last.matched.params[nodes[c].name]
        IN  /\ EndsWith(segment, nodes[c].suffix)
            /\ segment # nodes[c].suffix
            /\ nodes[c].regex # <<>> => RegExpTest(nodes[c].regex[1], value)
            /\ value # ""
            /\ value \o nodes[c].suffix = segment

\* C11: with fixedPathRedirect on, match of a path that holds a run of two or
\* more slashes and whose collapsed form resolves to an endpoint returns no
\* node, an empty tsr and the collapsed path as fpr.
C11_FixedPathRedirect ==
  (/\ last.op = "match" /\ last.err = "" /\ opts.fpr
   /\ Includes(last.arg, "//")
   /\ MatchOp(nodes, opts, fixMultiSlash(last.arg)).matched.node # NullId) =>
    /\ last.matched.node = NullId
    /\ last.matched.tsr = ""
    /\ last.matched.fpr = fixMultiSlash(last.arg)

\* match('/a//x') has proposed '/a/x', which resolves to an endpoint
C11_Witness ==
  /\ last.op = "match" /\ last.arg = "/a//x" /\ opts.fpr
  /\ MatchOp(nodes, opts, "/a/x").matched.node # NullId
  /\ last.matched.fpr = "/a/x"

\* pattern is a registered route: the node define would return for it is in
\* the trie and is an endpoint
IsEndpoint(h, r) == r.err = "" /\ r.node \in DOMAIN h /\ h[r.node].endpoint

Registered(pattern) ==
  IsEndpoint(nodes, DefineOp(nodes, opts.ignoreCase, pattern))

\* path resolves to an endpoint: match returns a node for it
Resolves(path) == MatchOp(nodes, opts, path).matched.node # NullId

\* C12: with trailingSlashRedirect on and no slash collapsed, when q resolves
\* to an endpoint and q + '/' is no registered route, match(q + '/') returns
\* no node and tsr = q; when q + '/' resolves to an endpoint and q is no
\* registered route, match(q) returns no node and tsr = q + '/'.
C12_TrailingSlashRedirect ==
  (/\ last.op = "match" /\ last.err = "" /\ opts.tsr
   /\ ~Includes(last.arg, "//")) =>
    /\ (/\ Len(last.arg) > 2 /\ EndsWith(last.arg, "/")
        /\ Resolves(Slice(last.arg, 0, Len(last.arg) - 1))
        /\ ~Registered(last.arg)) =>
         /\ last.matched.node = NullId
         /\ last.matched.tsr = Slice(last.arg, 0, Len(last.arg) - 1)
    /\ (/\ ~EndsWith(last.arg, "/")
        /\ Resolves(last.arg \o "/")
        /\ ~Registered(last.arg)) =>
         /\ last.matched.node = NullId
         /\ last.matched.tsr = last.arg \o "/"

\* C13: the result of match holds at most one of a node, a non-empty fpr and
\* a non-empty tsr; fpr and tsr are never both non-empty; when slashes were
\* collapsed with fixedPathRedirect on, any redirect is in fpr and tsr is
\* empty.
C13_OneOutcome ==
  (last.op = "match" /\ last.err = "") =>
    /\ Cardinality({x \in {"node", "fpr", "tsr"} :
         \/ x = "node" /\ last.matched.node # NullId
         \/ x = "fpr" /\ last.matched.fpr # ""
         \/ x = "tsr" /\ last.matched.tsr # ""}) <= 1
    /\ ~(last.matched.fpr # "" /\ last.matched.tsr # "")
    /\ (opts.fpr /\ Includes(last.arg, "//")) => last.matched.tsr = ""

\* match('/a//') has met a dead end past the endpoint 'a' after a collapse:
\* the redirect to '/a' is in fpr
C13_Witness ==
  /\ last.op = "match" /\ last.arg = "/a//" /\ opts.fpr /\ opts.tsr
  /\ last.matched = [Matched EXCEPT !.fpr = "/a"]

\* C14: when match finds no route and proposes no redirect (no node, fpr and
\* tsr empty), every field of the result is empty, params included.
C14_NoRouteIsEmpty ==
  (/\ last.op = "match" /\ last.err = ""
   /\ last.matched.node = NullId
   /\ last.matched.fpr = "" /\ last.matched.tsr = "") =>
    last.matched.params = EmptyMap

\* the node of a registered pattern: the one define returns for it
NodeOf(h, ic, pattern) == DefineOp(h, ic, pattern).node

\* no path of the pool resolves to node id in the trie h
Unmatched(h, id) ==
  \A path \in RoutePaths : MatchOp(h, opts, path).matched.node # id

\* node id, when still there, is an endpoint no more and has no handler
Cleared(h, id) ==
  id \in DOMAIN h =>
    ~h[id].endpoint /\ h[id].handlers = EmptyMap /\ h[id].allow = ""

\* C15: for every pattern p whose define succeeded and that was not removed
\* since, remove(p) finds the node of p and clears it: the node is no
\* endpoint, has no handlers and an empty allow, and no path makes match
\* return it.
C15_RemoveClears ==
  [][\A p \in log.routes :
       (last'.op = "remove" /\ last'.arg = p) =>
         /\ last'.node = NodeOf(nodes, opts.ignoreCase, p)
         /\ Cleared(nodes', NodeOf(nodes, opts.ignoreCase, p))
         /\ Unmatched(nodes', NodeOf(nodes, opts.ignoreCase, p))]_vars

\* the nodes that node id of h holds, in children or in varyChildren
Held(h, id) ==
  {h[id].children[k] : k \in DOMAIN h[id].children}
    \cup {h[id].varyChildren[k] : k \in 1..Len(h[id].varyChildren)}

RECURSIVE Prunable(_, _, _)
\* the nodes pruning is to detach from id upwards in h, below being the node
\* just detached (none at the start): each is no root, no endpoint and holds
\* nothing else
Prunable(h, id, below) ==
  IF id = RootId \/ h[id].endpoint \/ Held(h, id) \ {below} # {} THEN {}
  ELSE {id} \cup Prunable(h, h[id].parent, id)

\* the trie before the last call, the node that call found being an endpoint
\* no more
PreCleared == [pre EXCEPT ![last.node].endpoint = FALSE]

Intact(h, g, id) ==
  /\ id \in DOMAIN g
  /\ g[id].endpoint
  /\ g[id].handlers = h[id].handlers
  /\ g[id].allow = h[id].allow
  /\ \A path \in RoutePaths :
       MatchOp(h, opts, path).matched.node = id =>
         MatchOp(g, opts, path).matched.node = id

\* C17: remove(p) leaves every other registered route q intact: the node of q
\* is still a reachable endpoint with the same handlers and allow, also when
\* q passes through the node of p, and every path that resolved to the node
\* of q before the call still does.
C17_RemoveFrame ==
  [][last'.op = "remove" =>
       \A q \in log.routes \ {last'.arg} :
         Intact(nodes, nodes', NodeOf(nodes, opts.ignoreCase, q))]_vars

\* C18: remove(q) for a well-formed q that has no structural counterpart at
\* some level of the trie raises no error and leaves the whole trie as it
\* was.
C18_RemoveAbsent ==
  (/\ last.op = "remove" /\ StartsWith(last.arg, "/")
   /\ FindNode(pre, opts.ignoreCase, last.arg) = NullId) =>
    last.err = "" /\ nodes = pre

\* remove('/a/c') has found the node of 'a' but no child of it for 'c'
C18_Witness ==
  /\ last.op = "remove" /\ last.arg = "/a/c" /\ last.err = ""
  /\ FindNode(pre, opts.ignoreCase, "/a") # NullId
  /\ FindNode(pre, opts.ignoreCase, "/a/c") = NullId
  /\ nodes = pre

RECURSIVE JoinMethods(_)
\* the methods of the calls, in call order, joined with ', '
JoinMethods(calls) ==
  IF calls = <<>> THEN ""
  ELSE IF Len(calls) = 1 THEN calls[1][1]
  ELSE JoinMethods(SubSeq(calls, 1, Len(calls) - 1))
         \o ", " \o calls[Len(calls)][1]

\* the handler of the first of the calls that was for method, or none
FirstHandler(calls, method) ==
  IF \E k \in 1..Len(calls) : calls[k][1] = method
  THEN calls[Least({k \in 1..Len(calls) : calls[k][1] = method}, 0)][2]
  ELSE ""

\* C19: after any sequence of handle calls on a node, its handlers and allow
\* reflect exactly the calls that succeeded: a call with no handler or for a
\* method already registered fails and changes nothing, getHandler(m) returns
\* the handler of the first successful handle(m), and allow is the methods of
\* the successful calls joined with ', ' in call order.
C19_Handlers ==
  /\ \A id \in DOMAIN log.handled :
       /\ DOMAIN nodes[id].handlers =
            {log.handled[id][k][1] : k \in 1..Len(log.handled[id])}
       /\ \A method \in Methods :
            GetHandler(nodes, id, method) =
              FirstHandler(log.handled[id], method)
       /\ nodes[id].allow = JoinMethods(log.handled[id])
  /\ last.op = "handle" =>
       IF last.handler = "" \/ last.arg \in DOMAIN pre[last.node].handlers
       THEN last.err # "" /\ nodes = pre
       ELSE last.err = ""

\* patterns p and q differ at most in the case of their literal segments
SameButCase(p, q) ==
  /\ Len(Segments(p)) = Len(Segments(q))
  /\ \A k \in 1..Len(Segments(p)) :
       IF StartsWith(Segments(p)[k], ":") THEN Segments(p)[k] = Segments(q)[k]
       ELSE ToLowerCase(Segments(p)[k]) = ToLowerCase(Segments(q)[k])

RECURSIVE Depth(_, _)
\* the number of steps from the root to node id
Depth(h, id) == IF id = RootId THEN 0 ELSE 1 + Depth(h, h[id].parent)

RECURSIVE Ancestor(_, _, _)
\* the node up steps above node id
Ancestor(h, id, up) ==
  IF up = 0 THEN id ELSE Ancestor(h, h[id].parent, up - 1)

\* the k-th segment of a path that resolved to node id was matched by a
\* static node
LiteralAt(h, id, k) ==
  k <= Depth(h, id) /\ h[Ancestor(h, id, Depth(h, id) - k)].name = ""

\* paths p and q differ at most in the case of their letters
CaseVariants(p, q) == ToLowerCase(p) = ToLowerCase(q)

\* paths p and q, the first resolved to node id, differ at most in the case of
\* the segments that static nodes matched
LiteralVariants(h, id, p, q) ==
  /\ Len(PathSegments(p)) = Len(PathSegments(q))
  /\ \A k \in 1..Len(PathSegments(p)) :
       IF LiteralAt(h, id, k)
       THEN ToLowerCase(PathSegments(p)[k]) = ToLowerCase(PathSegments(q)[k])
       ELSE PathSegments(p)[k] = PathSegments(q)[k]

\* with ignoreCase on, define returns the same node for patterns that differ
\* only in the case of their literal segments; with ignoreCase off, a node
\* of its own for each
DefineFolds ==
  (last.op = "define" /\ last.err = "") =>
    \A q \in CasePatterns :
      (q # last.arg /\ SameButCase(q, last.arg)) =>
        (opts.ignoreCase <=> NodeOf(nodes, opts.ignoreCase, q) = last.node)

GrammarErrors == {"InvalidPattern", "WildcardContinuation"}

\* C21: a define call that fails with a pattern-grammar error leaves the
\* nodes it created for earlier segments as non-endpoints that match does not
\* see: for every path, the result of match after the failed call equals the
\* result before it.
C21_FailedDefineInvisible ==
  (last.op = "define" /\ last.err \in GrammarErrors) =>
    /\ \A n \in DOMAIN nodes \ DOMAIN pre : ~nodes[n].endpoint
    /\ \A path \in Paths :
         MatchOp(nodes, opts, path) = MatchOp(pre, opts, path)

\* the last call was handed a value that the validation of its first lines
\* rejects
Malformed ==
  \/ last.arg.type # "string"
  \/ last.op = "define" /\ Includes(last.arg.text, "//")
  \/ last.op \in {"match", "remove"} /\ ~StartsWith(last.arg.text, "/")

\* C22: input-validation failures happen before any mutation: define with a
\* non-string pattern or a pattern that contains '//' fails, match and remove
\* with a non-string, empty or not-'/'-prefixed path fail, and each leaves the
\* trie exactly as it was.
C22_ValidationFirst ==
  (last.op \in {"define", "match", "remove"} /\ Malformed) =>
    /\ last.err \in {"TypeError", "MultiSlash", "FormatError"}
    /\ nodes = pre

\* define('/a//b') has failed on a trie that holds the route '/a'
C22_Witness ==
  /\ last.op = "define" /\ last.arg = String("/a//b")
  /\ last.err = "MultiSlash"
  /\ Registered("/a")
  /\ nodes = pre

\* what follows the ':' of a dynamic segment, less its regex clause
LessRegex(body) ==
  IF EndsWith(body, ")") /\ IndexOf(body, "(") >= 0
  THEN Slice(body, 0, IndexOf(body, "(")) ELSE body

\* what follows the ':' of a dynamic segment, less its suffix clause
LessSuffix(body) ==
  IF suffixReg(body) >= 0 THEN Slice(body, 0, suffixReg(body)) ELSE body

\* the parameter name of a dynamic segment: what follows its ':', less the
\* wildcard, suffix and regex clauses
NameOf(segment) ==
  IF EndsWith(segment, "*") THEN Slice(segment, 1, Len(segment) - 1)
  ELSE LessRegex(LessSuffix(SliceFrom(segment, 1)))

\* a name that is empty, holds a character outside [A-Za-z0-9_] or starts
\* with a digit
BadName(name) ==
  name = "" \/ ~AllIn(name, WordChars) \/ CharAt(name, 0) \in Digits

\* the last segment of the pattern of the last call
LastSegment == Segments(last.arg)[Len(Segments(last.arg))]

\* C23: define rejects with an Invalid-Pattern error every dynamic segment
\* whose parameter name, less the wildcard, suffix and regex clauses, is
\* empty, holds a character outside [A-Za-z0-9_] or starts with a digit, and
\* creates no dynamic child for that segment.
C23_NameCheck ==
  (/\ last.op = "define"
   /\ StartsWith(LastSegment, ":") /\ ~StartsWith(LastSegment, "::")
   /\ BadName(NameOf(LastSegment))) =>
    /\ last.err = "InvalidPattern"
    /\ \A n \in DOMAIN nodes \ DOMAIN pre : nodes[n].name = ""
    /\ \A n \in DOMAIN pre : nodes[n].varyChildren = pre[n].varyChildren

\* the node the scan of match goes on to from parent for segment: _matchNode,
\* and the retry on the lower-cased segment
Descend(h, ic, parent, segment) ==
  Retry(h, ic, parent, segment, MatchNode(h, ic, parent, segment))

\* C24: at any level of the trie, when the segment of the path (case-folded
\* under ignoreCase) is the key of a static child, match descends into that
\* static child and into no dynamic sibling, whatever dynamic siblings,
\* wildcards included, there are and in whatever order the patterns were
\* defined.
C24_StaticFirst ==
  /\ \A parent \in DOMAIN nodes : \A segment \in {"a", "b", "B", "x"} :
       Fold(opts.ignoreCase, segment) \in DOMAIN nodes[parent].children =>
         Descend(nodes, opts.ignoreCase, parent, segment) =
           nodes[parent].children[Fold(opts.ignoreCase, segment)]
  /\ \A path \in StaticPaths :
       (/\ last.op = "match" /\ last.arg = path
        /\ ChildOf(nodes, RootId, "a") # NullId
        /\ Fold(opts.ignoreCase, PathSegments(path)[2]) \in
             DOMAIN nodes[ChildOf(nodes, RootId, "a")].children) =>
         /\ last.matched.node =
              nodes[ChildOf(nodes, RootId, "a")].children[
                Fold(opts.ignoreCase, PathSegments(path)[2])]
         /\ last.matched.params = EmptyMap

\* match('/a/b') has resolved to the static child 'b' of 'a', which holds
\* dynamic children as well, a wildcard among them, defined before it
C24_Witness ==
  /\ last.op = "match" /\ last.arg = "/a/b"
  /\ ChildOf(nodes, RootId, "a") # NullId
  /\ last.matched.node = ChildOf(nodes, ChildOf(nodes, RootId, "a"), "b")
  /\ last.matched.node # NullId
  /\ \E w \in Vary(nodes, ChildOf(nodes, RootId, "a")) :
       nodes[w].wildcard /\ w < last.matched.node

\* the entries of list that are in the set kept, in the order of list
Only(list, kept) == SelectSeq(list, LAMBDA id : id \in kept)

\* the entries of a list, as a set
Entries(list) == {list[k] : k \in 1..Len(list)}

\* every varyChildren list is in the order of non-increasing priority
Sorted ==
  \A n \in DOMAIN nodes : \A k \in 1..(Len(nodes[n].varyChildren) - 1) :
    nodes[nodes[n].varyChildren[k]].priority >=
      nodes[nodes[n].varyChildren[k + 1]].priority

\* a call keeps the order of the entries that stay in a varyChildren list,
\* and puts a new entry after the entries of its own priority
KeepsOrder ==
  \A n \in DOMAIN nodes \cap DOMAIN nodes' :
    /\ Only(nodes'[n].varyChildren, Entries(nodes[n].varyChildren)) =
         Only(nodes[n].varyChildren, Entries(nodes'[n].varyChildren))
    /\ \A k \in 1..Len(nodes'[n].varyChildren) :
         nodes'[n].varyChildren[k] \notin Entries(nodes[n].varyChildren) =>
           \A j \in (k + 1)..Len(nodes'[n].varyChildren) :
             nodes'[nodes'[n].varyChildren[j]].priority <
               nodes'[nodes'[n].varyChildren[k]].priority

\* C25: after any sequence of define and remove calls, every varyChildren
\* list is ordered by non-increasing priority, and its entries of equal
\* priority are in the order in which they were first inserted.
C25_VaryOrder == []Sorted /\ [][KeepsOrder]_vars

\* define has just inserted a node after an entry of its own priority
C25_Witness ==
  /\ last.op = "define" /\ last.err = "" /\ last.node \notin DOMAIN pre
  /\ \E k \in 2..Len(nodes[nodes[last.node].parent].varyChildren) :
       /\ nodes[nodes[last.node].parent].varyChildren[k] = last.node
       /\ nodes[nodes[nodes[last.node].parent].varyChildren[k - 1]].priority =
            nodes[last.node].priority

\* the places of children maps that hold node id: a parent and a key
InChildren(h, id) ==
  UNION {{<<p, k>> : k \in {k \in DOMAIN h[p].children :
                             h[p].children[k] = id}} : p \in DOMAIN h}

\* the places of varyChildren lists that hold node id: a parent and a slot
InVaryChildren(h, id) ==
  UNION {{<<p, k>> : k \in {k \in 1..Len(h[p].varyChildren) :
                             h[p].varyChildren[k] = id}} : p \in DOMAIN h}

\* node id is reached from the root by the parent fields
Rooted(h, id) ==
  \E up \in 0..Cardinality(DOMAIN h) : Ancestor(h, id, up) = RootId

\* C26: after any sequence of define and remove calls the nodes reachable
\* from the root form a tree: every node but the root is held by exactly one
\* parent, under exactly one key of its children or in exactly one slot of
\* its varyChildren, never both, and its parent field is that parent; the
\* parent of the root is null.
C26_Tree ==
  /\ nodes[RootId].parent = NullId
  /\ InChildren(nodes, RootId) = {} /\ InVaryChildren(nodes, RootId) = {}
  /\ \A n \in DOMAIN nodes \ {RootId} :
       /\ Cardinality(InChildren(nodes, n))
            + Cardinality(InVaryChildren(nodes, n)) = 1
       /\ \A x \in InChildren(nodes, n) \cup InVaryChildren(nodes, n) :
            x[1] = nodes[n].parent
       /\ Rooted(nodes, n)

\* remove has detached a dynamic node from a trie that still holds a static
\* and a dynamic node
C26_Witness ==
  /\ last.op = "remove" /\ last.node # NullId
  /\ Cardinality(DOMAIN nodes) < Cardinality(DOMAIN pre)
  /\ \E n \in DOMAIN nodes : nodes[n].varyChildren # <<>>

\* C27: after any sequence of define, handle and remove calls, every node
\* that is no endpoint (a step on the way to a route, or a node that remove
\* has cleared) has an empty handlers table and an empty allow.
C27_NoHandlersOffRoute ==
  \A n \in DOMAIN nodes :
    ~nodes[n].endpoint =>
      nodes[n].handlers = EmptyMap /\ nodes[n].allow = ""

DynamicAbove(h, id) ==
  {Ancestor(h, id, up) : up \in 0..Depth(h, id)} \cap
    {n \in DOMAIN h : h[n].name # ""}

\* C29: every value that match stores in params for a parameter that is no
\* wildcard is a non-empty string without '/': a dynamic node that is no
\* wildcard never matches an empty segment of the path, such as the one a
\* trailing slash produces.
C29_ParamNotEmpty ==
  (last.op = "match" /\ last.err = "") =>
    /\ \A n \in DOMAIN nodes :
         (nodes[n].name # "" /\ ~nodes[n].wildcard) =>
           Descend(nodes, opts.ignoreCase, nodes[n].parent, "") # n
    /\ last.matched.node # NullId =>
         \A n \in DynamicAbove(nodes, last.matched.node) :
           ~nodes[n].wildcard =>
             /\ last.matched.params[nodes[n].name] # ""
             /\ ~Includes(last.matched.params[nodes[n].name], "/")

\* the tries h and g hold the same nodes, with the same children maps,
\* varyChildren lists, endpoint flags, handlers tables and allow strings, and
\* match returns the same result on both for every path
SameTrie(h, g) ==
  /\ DOMAIN h = DOMAIN g
  /\ \A n \in DOMAIN h :
       /\ h[n].children = g[n].children
       /\ h[n].varyChildren = g[n].varyChildren
       /\ h[n].endpoint = g[n].endpoint
       /\ h[n].handlers = g[n].handlers
       /\ h[n].allow = g[n].allow
  /\ \A path \in RoutePaths : MatchOp(h, opts, path) = MatchOp(g, opts, path)

\* the trie after remove(pattern) on the trie that define(pattern) returned
\* as r
Undone(r, pattern) == RemoveOp(r.h, opts.ignoreCase, pattern).h

\* C30: in any reachable state of the trie, when the pattern p is no
\* registered route and define(p) succeeds, define(p) followed by remove(p)
\* restores the trie: the nodes, every children map, every varyChildren
\* order, every endpoint flag, handlers table and allow string are what they
\* were before define(p), and match returns the same result for every path.
C30_DefineRemove ==
  \A p \in RoutePatterns \ log.routes :
    DefineOp(nodes, opts.ignoreCase, p).err = "" =>
      SameTrie(Undone(DefineOp(nodes, opts.ignoreCase, p), p), nodes)

====
